---------------------------- MODULE Spec2Model ----------------------------
(***************************************************************************)
(* UPLC viewer: hex normaliser, CBOR byte-string framer, version           *)
(* extractor and the dual-path parse orchestrator of the web application.  *)
(*                                                                         *)
(* Data representation                                                     *)
(*   string      a sequence of one-character strings                       *)
(*   message     a sequence of symbols; a message literal of the source is *)
(*               one symbol, template concatenation is \o                  *)
(*   Uint8Array  a sequence of runs [b |-> byte, n |-> count], the bytes   *)
(*               of the array read left to right; an array produced byte   *)
(*               by byte has one run of count 1 per byte                   *)
(*   number      array lengths reach past 2^31, so a length is kept as two *)
(*               limbs [hi, lo] of value hi * 2^16 + lo                    *)
(*   string|null Str(s) or NULL                                            *)
(*   outcome     [ok |-> TRUE, value |-> v] for a return,                  *)
(*               [ok |-> FALSE, name |-> n, message |-> m] for a throw     *)
(***************************************************************************)
EXTENDS Integers, Sequences, FiniteSets, TLC

VARIABLES
    input,       \* App state: text of the input area
    result,      \* App state: ViewerResult or NULL
    error,       \* App state: error message or NULL
    lastAction,  \* App state: info message or NULL
    prettyMode,  \* App state: pretty-print toggle
    textError,   \* handleProcess local: captured text-path message
    trace,       \* parse paths entered by the last handleProcess, in order
    call         \* last library call: [fn, arg, ret]

vars == <<input, result, error, lastAction, prettyMode, textError, trace, call>>

NULL == [null |-> TRUE]

\* A JavaScript string held where null is also possible
Str(s) == [str |-> s]

Return(v) == [ok |-> TRUE, value |-> v]
Throw(n, m) == [ok |-> FALSE, name |-> n, message |-> m]
ParseError(m) == Throw("ParseError", m)

-----------------------------------------------------------------------------
(* Bounds of the model                                                     *)

MaxDenseLen == 30
MaxHexLen == 5
MaxTokLen == 8
MaxPayload == 3

-----------------------------------------------------------------------------
(* Numbers and byte arrays                                                 *)

Limb == 2 ^ 16

Num(hi, lo) == [hi |-> hi, lo |-> lo]

NumOf(n) == Num(n \div Limb, n % Limb)

NumAdd(a, k) == Num(a.hi + ((a.lo + k) \div Limb), (a.lo + k) % Limb)

NumLE(a, k) == a.hi = 0 /\ a.lo <= k

ToUint32(a) == Num(a.hi % Limb, a.lo)

Run(b, n) == [b |-> b, n |-> n]

Unit(bs) == [i \in 1..Len(bs) |-> Run(bs[i], 1)]

\* Halves of a sequence of two or more elements (recursion by halves keeps
\* the evaluation depth logarithmic in the length).
FrontHalf(s) == SubSeq(s, 1, Len(s) \div 2)
BackHalf(s) == SubSeq(s, (Len(s) \div 2) + 1, Len(s))

RECURSIVE SumHi(_)
SumHi(bytes) ==
    IF bytes = <<>> THEN 0
    ELSE IF Len(bytes) = 1 THEN bytes[1].n \div Limb
    ELSE SumHi(FrontHalf(bytes)) + SumHi(BackHalf(bytes))

RECURSIVE SumLo(_)
SumLo(bytes) ==
    IF bytes = <<>> THEN 0
    ELSE IF Len(bytes) = 1 THEN bytes[1].n % Limb
    ELSE SumLo(FrontHalf(bytes)) + SumLo(BackHalf(bytes))

byteLength(bytes) ==
    Num(SumHi(bytes) + (SumLo(bytes) \div Limb), SumLo(bytes) % Limb)

-----------------------------------------------------------------------------
(* wrapBytesAsCbor                                                         *)

Tier1Max == 23
Tier2Max == 255
Tier3Max == 65535

StoreByte(v) == v % 256

\* Mutant: the one-byte tier taken for length <= 24.
wrapBytesAsCbor_tier(bytes) ==
    LET length == byteLength(bytes) IN
    IF NumLE(length, Tier1Max + 1)
    THEN Unit(<<StoreByte(64 + length.lo)>>) \o bytes
    ELSE IF NumLE(length, Tier2Max)
    THEN Unit(<<88, StoreByte(length.lo)>>) \o bytes
    ELSE IF NumLE(length, Tier3Max)
    THEN Unit(<<89, (length.lo \div 256) % 256, length.lo % 256>>) \o bytes
    ELSE LET u == ToUint32(length) IN
         Unit(<<90, (u.hi \div 256) % 256, u.hi % 256,
                    (u.lo \div 256) % 256, u.lo % 256>>) \o bytes

\* Mutant: the 4-byte length field written least significant byte first.
wrapBytesAsCbor_le(bytes) ==
    LET length == byteLength(bytes) IN
    IF NumLE(length, Tier1Max)
    THEN Unit(<<StoreByte(64 + length.lo)>>) \o bytes
    ELSE IF NumLE(length, Tier2Max)
    THEN Unit(<<88, StoreByte(length.lo)>>) \o bytes
    ELSE IF NumLE(length, Tier3Max)
    THEN Unit(<<89, (length.lo \div 256) % 256, length.lo % 256>>) \o bytes
    ELSE LET u == ToUint32(length) IN
         Unit(<<90, u.lo % 256, (u.lo \div 256) % 256,
                    u.hi % 256, (u.hi \div 256) % 256>>) \o bytes

wrapBytesAsCbor(bytes) ==
    LET length == byteLength(bytes) IN
    IF NumLE(length, Tier1Max)
    THEN Unit(<<StoreByte(64 + length.lo)>>) \o bytes
    ELSE IF NumLE(length, Tier2Max)
    THEN Unit(<<88, StoreByte(length.lo)>>) \o bytes
    ELSE IF NumLE(length, Tier3Max)
    THEN Unit(<<89, (length.lo \div 256) % 256, length.lo % 256>>) \o bytes
    ELSE LET u == ToUint32(length) IN
         Unit(<<90, (u.hi \div 256) % 256, u.hi % 256,
                    (u.lo \div 256) % 256, u.lo % 256>>) \o bytes

-----------------------------------------------------------------------------
(* Strings                                                                 *)

WhiteSpace == {" ", "\t", "\n"}

DigitChars == {"0", "1", "2", "3", "4", "5", "6", "7", "8", "9"}

HexDigits == <<"0", "1", "2", "3", "4", "5", "6", "7", "8", "9",
               "a", "b", "c", "d", "e", "f">>

UpperAlpha == <<"A", "B", "C", "D", "E", "F", "G", "X">>
LowerAlpha == <<"a", "b", "c", "d", "e", "f", "g", "x">>

HexChars == DigitChars \cup {"a", "b", "c", "d", "e", "f"}
                       \cup {"A", "B", "C", "D", "E", "F"}

IndexIn(seq, c) == CHOOSE i \in 1..Len(seq) : seq[i] = c

LowerChar(c) ==
    IF \E i \in 1..Len(UpperAlpha) : UpperAlpha[i] = c
    THEN LowerAlpha[IndexIn(UpperAlpha, c)]
    ELSE c

toLowerCase(s) == [i \in 1..Len(s) |-> LowerChar(s[i])]

IsWs(c) == c \in WhiteSpace

\* String.prototype.trim
trim(s) ==
    LET keep == {i \in 1..Len(s) : ~IsWs(s[i])} IN
    IF keep = {} THEN <<>>
    ELSE SubSeq(s, CHOOSE i \in keep : \A j \in keep : i <= j,
                   CHOOSE i \in keep : \A j \in keep : j <= i)

\* s.replace(/\s+/g, "")
removeWhitespace(s) == SelectSeq(s, LAMBDA c : ~IsWs(c))

startsWith(s, p) == Len(s) >= Len(p) /\ SubSeq(s, 1, Len(p)) = p

\* s.slice(from)
sliceFrom(s, from) == SubSeq(s, from + 1, Len(s))

\* s.slice(from, to) for 0 <= from, 0 <= to
slice(s, from, to) ==
    IF to <= from THEN <<>> ELSE SubSeq(s, from + 1, IF to < Len(s) THEN to ELSE Len(s))

\* s.lastIndexOf(c), zero-based, -1 when absent
lastIndexOf(s, c) ==
    LET at == {i \in 1..Len(s) : s[i] = c} IN
    IF at = {} THEN -1 ELSE (CHOOSE i \in at : \A j \in at : j <= i) - 1

-----------------------------------------------------------------------------
(* normalizeHex                                                            *)

MsgHexEmpty == <<"The CBOR hex string is empty.">>
MsgHexNonHex == <<"The CBOR input contains non-hexadecimal characters.">>
MsgHexOdd == <<"Hex strings must contain an even number of characters.">>

\* /^[0-9a-fA-F]+$/.test(s)
IsHexString(s) == Len(s) >= 1 /\ \A i \in 1..Len(s) : s[i] \in HexChars

withoutPrefixOf(str) ==
    LET trimmed == removeWhitespace(trim(str)) IN
    IF startsWith(trimmed, <<"0", "x">>) \/ startsWith(trimmed, <<"0", "X">>)
    THEN sliceFrom(trimmed, 2)
    ELSE trimmed

\* Mutant: the odd-length check made before the character check.
normalizeHex_oddFirst(str) ==
    LET withoutPrefix == withoutPrefixOf(str) IN
    IF Len(withoutPrefix) = 0 THEN ParseError(MsgHexEmpty)
    ELSE IF Len(withoutPrefix) % 2 # 0 THEN ParseError(MsgHexOdd)
    ELSE IF ~IsHexString(withoutPrefix) THEN ParseError(MsgHexNonHex)
    ELSE Return(toLowerCase(withoutPrefix))

\* Mutant: the result returned without lower-casing.
normalizeHex_noLower(str) ==
    LET withoutPrefix == withoutPrefixOf(str) IN
    IF Len(withoutPrefix) = 0 THEN ParseError(MsgHexEmpty)
    ELSE IF ~IsHexString(withoutPrefix) THEN ParseError(MsgHexNonHex)
    ELSE IF Len(withoutPrefix) % 2 # 0 THEN ParseError(MsgHexOdd)
    ELSE Return(withoutPrefix)

normalizeHex(str) ==
    LET withoutPrefix == withoutPrefixOf(str) IN
    IF Len(withoutPrefix) = 0 THEN ParseError(MsgHexEmpty)
    ELSE IF ~IsHexString(withoutPrefix) THEN ParseError(MsgHexNonHex)
    ELSE IF Len(withoutPrefix) % 2 # 0 THEN ParseError(MsgHexOdd)
    ELSE Return(toLowerCase(withoutPrefix))

-----------------------------------------------------------------------------
(* toHex / fromHex (uint8array-utils) and hexStringToBytes                 *)

\* The bytes of an array, one element per byte.
RECURSIVE Flatten(_)
Flatten(bytes) ==
    IF bytes = <<>> THEN <<>>
    ELSE IF Len(bytes) = 1 THEN [i \in 1..bytes[1].n |-> bytes[1].b]
    ELSE Flatten(FrontHalf(bytes)) \o Flatten(BackHalf(bytes))

HexOf(bs) ==
    [i \in 1..(2 * Len(bs)) |->
        IF i % 2 = 1 THEN HexDigits[(bs[(i + 1) \div 2] \div 16) + 1]
        ELSE HexDigits[(bs[i \div 2] % 16) + 1]]

toHex(bytes) == HexOf(Flatten(bytes))

HexVal(c) == IndexIn(HexDigits, LowerChar(c)) - 1

MsgFromHex == <<"invalid hex string">>

fromHex(str) ==
    IF Len(str) % 2 # 0 \/ \E i \in 1..Len(str) : str[i] \notin HexChars
    THEN Throw("Error", MsgFromHex)
    ELSE Return(Unit([i \in 1..(Len(str) \div 2) |->
                        16 * HexVal(str[2 * i - 1]) + HexVal(str[2 * i])]))

hexStringToBytes(str) ==
    LET normalized == normalizeHex(str) IN
    IF ~normalized.ok THEN normalized
    ELSE LET bytes == fromHex(normalized.value) IN
         IF bytes.ok THEN bytes ELSE ParseError(bytes.message)

-----------------------------------------------------------------------------
(* UPLCVersion and detectVersionFromSource                                 *)

Version(a, b, c) == [major |-> a, minor |-> b, patch |-> c]

defaultUplcVersion == Version(1, 1, 0)

ProgramToken == <<"(", "p", "r", "o", "g", "r", "a", "m">>

DigitVal(c) == IndexIn(HexDigits, c) - 1

RECURSIVE ParseNat(_)
ParseNat(ds) ==
    IF ds = <<>> THEN 0
    ELSE 10 * ParseNat(SubSeq(ds, 1, Len(ds) - 1)) + DigitVal(ds[Len(ds)])

RECURSIVE NatToString(_)
NatToString(n) ==
    IF n < 10 THEN <<HexDigits[n + 1]>>
    ELSE NatToString(n \div 10) \o <<HexDigits[(n % 10) + 1]>>

IsDigits(s) == Len(s) >= 1 /\ \A i \in 1..Len(s) : s[i] \in DigitChars

\* Last position of the maximal run of digits of s that starts at from
\* (from - 1 when s has no digit there).
RunEnd(s, from) ==
    LET ends == {e \in from..Len(s) : \A x \in from..e : s[x] \in DigitChars} IN
    IF ends = {} THEN from - 1 ELSE CHOOSE e \in ends : \A f \in ends : f <= e

\* inner.match(/^(\d+\.\d+\.\d+)(?!\.)/): [group1 |-> text], or NULL.
\* The first two \d+ are each followed by a literal dot, so they can only
\* take their maximal run. The third \d+ is greedy and backtracks: it takes
\* the longest non-empty prefix of its run after which the lookahead (?!\.)
\* passes.
matchVersion(s) ==
    LET i == RunEnd(s, 1) IN
    IF ~(i >= 1 /\ i + 1 <= Len(s) /\ s[i + 1] = ".") THEN NULL
    ELSE LET j == RunEnd(s, i + 2) IN
         IF ~(j >= i + 2 /\ j + 1 <= Len(s) /\ s[j + 1] = ".") THEN NULL
         ELSE LET kmax == RunEnd(s, j + 2)
                  ks == {k \in (j + 2)..kmax : k = Len(s) \/ s[k + 1] # "."}
              IN IF ks = {} THEN NULL
                 ELSE [group1 |-> SubSeq(s, 1, CHOOSE k \in ks : \A m \in ks : m <= k)]

\* Splits s at its dots.
RECURSIVE SplitDots(_)
SplitDots(s) ==
    LET dots == {i \in 1..Len(s) : s[i] = "."} IN
    IF dots = {} THEN <<s>>
    ELSE LET d == CHOOSE i \in dots : \A j \in dots : i <= j IN
         <<SubSeq(s, 1, d - 1)>> \o SplitDots(SubSeq(s, d + 1, Len(s)))

MsgFromString == <<"invalid version string">>

\* UPLCVersion.fromString
fromString(str) ==
    LET parts == SplitDots(str) IN
    IF Len(parts) = 3 /\ \A i \in 1..3 : IsDigits(parts[i])
    THEN Return(Version(ParseNat(parts[1]), ParseNat(parts[2]), ParseNat(parts[3])))
    ELSE Throw("Error", MsgFromString)

MsgVersionUnreadable == <<"Unable to read the program version from the input.">>
MsgVersionInvalid == <<"The program version found in the input is not valid.">>

innerOf(trimmed) ==
    LET closingIndex == lastIndexOf(trimmed, ")") IN
    IF closingIndex >= 0
    THEN trim(slice(trimmed, 8, closingIndex))
    ELSE trim(sliceFrom(trimmed, 8))

\* Mutant: a header without a readable version falls back to the default.
detectVersionFromSource_fallback(source) ==
    LET trimmed == trim(source) IN
    IF ~startsWith(trimmed, ProgramToken) THEN Return(defaultUplcVersion)
    ELSE LET versionMatch == matchVersion(innerOf(trimmed)) IN
         IF versionMatch = NULL THEN Return(defaultUplcVersion)
         ELSE LET v == fromString(versionMatch.group1) IN
              IF v.ok THEN v ELSE ParseError(MsgVersionInvalid)

\* Mutant: the header recognised by its opening parenthesis alone.
detectVersionFromSource_anyParen(source) ==
    LET trimmed == trim(source) IN
    IF ~startsWith(trimmed, <<"(">>) THEN Return(defaultUplcVersion)
    ELSE LET versionMatch == matchVersion(innerOf(trimmed)) IN
         IF versionMatch = NULL THEN ParseError(MsgVersionUnreadable)
         ELSE LET v == fromString(versionMatch.group1) IN
              IF v.ok THEN v ELSE ParseError(MsgVersionInvalid)

detectVersionFromSource(source) ==
    LET trimmed == trim(source) IN
    IF ~startsWith(trimmed, ProgramToken) THEN Return(defaultUplcVersion)
    ELSE LET versionMatch == matchVersion(innerOf(trimmed)) IN
         IF versionMatch = NULL THEN ParseError(MsgVersionUnreadable)
         ELSE LET v == fromString(versionMatch.group1) IN
              IF v.ok THEN v ELSE ParseError(MsgVersionInvalid)

\* UPLCVersion.prototype.toString
versionToString(version) ==
    NatToString(version.major) \o <<".">> \o NatToString(version.minor)
        \o <<".">> \o NatToString(version.patch)

-----------------------------------------------------------------------------
(* Terms, the external text parser and printer, parseTextSource            *)

ErrorTerm == [tag |-> "ErrorTerm"]
\* UPLCConst: an integer constant carries value, a bytestring constant bytes.
ConstInt(value) == [tag |-> "UPLCConst", type |-> "integer", value |-> value]
ConstBytes(bytes) == [tag |-> "UPLCConst", type |-> "bytestring", bytes |-> bytes]
Lambda(body) == [tag |-> "Lambda", body |-> body]
Delay(body) == [tag |-> "Delay", body |-> body]

\* prettyUPLC: the rendering of a term, one symbol that names the term.
prettyUPLC(term) == <<ToString(term)>>

MsgUnknownText == <<"Unknown error while parsing UPLC text.">>
MsgUnknownCbor == <<"Unknown error while parsing CBOR.">>

\* error instanceof Error ? error.message : fallback
messageOf(thrown, fallback) ==
    IF thrown.name \in {"Error", "ParseError"} THEN thrown.message ELSE fallback

\* parseTextSource(source), where parsed is what parseUPLCText(source)
\* returned or threw.
parseTextSource(source, parsed) ==
    IF ~parsed.ok THEN ParseError(messageOf(parsed, MsgUnknownText))
    ELSE LET version == detectVersionFromSource(source) IN
         IF ~version.ok THEN ParseError(messageOf(version, MsgUnknownText))
         ELSE Return([term |-> parsed.value,
                      version |-> version.value,
                      pretty |-> trim(prettyUPLC(parsed.value))])

-----------------------------------------------------------------------------
(* Programs, the external compiler and decoder, encodeProgram and          *)
(* parseCborHex                                                            *)
(*                                                                         *)
(* The flat serialisation is the external library's. It is modelled as a   *)
(* byte-level prefix code over the terms of the model; the decoder is its  *)
(* inverse on Programs and fails on every other payload.                   *)

UPLCProgram(version, body) == [version |-> version, body |-> body]

ByteString(k, first) == [i \in 1..k |-> (first + i - 1) % 256]

RECURSIVE FlatTerm(_)
FlatTerm(term) ==
    CASE term.tag = "ErrorTerm" -> <<6>>
      [] term.tag = "Delay" -> <<1>> \o FlatTerm(term.body)
      [] term.tag = "Lambda" -> <<2>> \o FlatTerm(term.body)
      [] term.tag = "UPLCConst" /\ term.type = "integer" -> <<4, 0, term.value>>
      [] term.tag = "UPLCConst" /\ term.type = "bytestring" ->
             <<4, 1, Len(term.bytes) \div 256, Len(term.bytes) % 256>> \o term.bytes

\* compileUPLC(program).toBuffer().buffer
compileUPLC(program) ==
    Unit(<<program.version.major, program.version.minor, program.version.patch>>
         \o FlatTerm(program.body))

PayloadLens ==
    (0..MaxPayload)
    \cup {Tier1Max - 8, Tier1Max - 7, Tier1Max - 6}
    \cup {Tier2Max - 8, Tier2Max - 7, Tier2Max - 6}

ByteStringTerms ==
    {ConstBytes(ByteString(k, first)) : k \in PayloadLens, first \in {0, 171}}

Terms ==
    {ErrorTerm, Delay(ErrorTerm), ConstInt(0), ConstInt(42)}
    \cup ByteStringTerms
    \cup {Lambda(t) : t \in ByteStringTerms \cup {ErrorTerm}}

Versions == {Version(1, 0, 0), Version(1, 1, 0)}

Programs == {UPLCProgram(v, t) : v \in Versions, t \in Terms}

MsgNotBytes == <<"cbor: expected a byte string">>
MsgTruncated == <<"cbor: byte string shorter than its header says">>
MsgBadFlat == <<"flat: not a serialised program">>

\* The header length and payload length that a CBOR byte-string header
\* announces (major type 2, RFC 8949), or NULL.
cborBytesHeader(b) ==
    IF Len(b) = 0 THEN NULL
    ELSE IF b[1] >= 64 /\ b[1] <= 87
    THEN [header |-> 1, length |-> Num(0, b[1] - 64)]
    ELSE IF b[1] = 88 /\ Len(b) >= 2
    THEN [header |-> 2, length |-> Num(0, b[2])]
    ELSE IF b[1] = 89 /\ Len(b) >= 3
    THEN [header |-> 3, length |-> Num(0, b[2] * 256 + b[3])]
    ELSE IF b[1] = 90 /\ Len(b) >= 5
    THEN [header |-> 5, length |-> Num(b[2] * 256 + b[3], b[4] * 256 + b[5])]
    ELSE NULL

\* UPLCDecoder.parse(bytes, "cbor")
UPLCDecoder_parse(bytes) ==
    LET b == Flatten(bytes)
        h == cborBytesHeader(b)
    IN IF h = NULL THEN Throw("Error", MsgNotBytes)
       ELSE IF ~(h.length.hi = 0 /\ h.header + h.length.lo <= Len(b))
       THEN Throw("Error", MsgTruncated)
       ELSE LET payload == SubSeq(b, h.header + 1, h.header + h.length.lo)
                found == {P \in Programs : compileUPLC(P) = Unit(payload)}
            IN IF found = {} THEN Throw("Error", MsgBadFlat)
               ELSE Return(CHOOSE P \in found : TRUE)

\* Mutant: the hex of the framed bytes taken from the unframed buffer.
encodeProgram_unframedHex(term, version) ==
    LET program == UPLCProgram(version, term)
        flatBytes == compileUPLC(program)
        cborBytes == wrapBytesAsCbor(flatBytes)
    IN [program |-> program,
        flatBytes |-> flatBytes,
        flatHex |-> toHex(flatBytes),
        cborBytes |-> cborBytes,
        cborHex |-> toHex(flatBytes)]

encodeProgram(term, version) ==
    LET program == UPLCProgram(version, term)
        flatBytes == compileUPLC(program)
        cborBytes == wrapBytesAsCbor(flatBytes)
    IN [program |-> program,
        flatBytes |-> flatBytes,
        flatHex |-> toHex(flatBytes),
        cborBytes |-> cborBytes,
        cborHex |-> toHex(cborBytes)]

parseCborHex(str) ==
    LET bytes == hexStringToBytes(str) IN
    IF ~bytes.ok THEN bytes
    ELSE LET program == UPLCDecoder_parse(bytes.value) IN
         IF ~program.ok THEN ParseError(messageOf(program, MsgUnknownCbor))
         ELSE LET encoding == encodeProgram(program.value.body, program.value.version) IN
              Return([program |-> encoding.program,
                      flatBytes |-> encoding.flatBytes,
                      flatHex |-> encoding.flatHex,
                      cborBytes |-> encoding.cborBytes,
                      cborHex |-> encoding.cborHex,
                      pretty |-> trim(prettyUPLC(program.value.body)),
                      version |-> program.value.version])

-----------------------------------------------------------------------------
(* State machine: the App's initial state and calls of the library        *)

\* The freshly mounted App (useState initial values).
InitApp ==
    /\ input = <<>>
    /\ result = NULL
    /\ error = NULL
    /\ lastAction = NULL
    /\ prettyMode = FALSE
    /\ textError = NULL
    /\ trace = <<>>

appVars == <<input, result, error, lastAction, prettyMode, textError, trace>>

\* A library call about to be made on arg, and the call once it returned.
Pending(fn, arg) == [fn |-> fn, arg |-> arg, done |-> FALSE]

NoCall == [fn |-> "none", done |-> FALSE]

Finished(fn) == call.fn = fn /\ call.done

Finish(fn, ret) ==
    /\ call.fn = fn
    /\ ~call.done
    /\ call' = [fn |-> fn, arg |-> call.arg, done |-> TRUE, ret |-> ret]
    /\ UNCHANGED appVars

-----------------------------------------------------------------------------
(* Inputs of wrapBytesAsCbor: arrays given by the counts of their runs and *)
(* a first byte; lengths 0..MaxDenseLen, the lengths around each tier      *)
(* boundary, and lengths around 2^32.                                      *)

BigRun == 2 ^ 30

FillBytes == {0, 90, 255}

Shapes ==
    {<<>>}
    \cup {<<n>> : n \in 1..MaxDenseLen}
    \cup {<<1, n>> : n \in 1..MaxDenseLen}
    \cup {<<n>> : n \in {Tier1Max - 1, Tier1Max, Tier1Max + 1, Tier1Max + 2}}
    \cup {<<n>> : n \in {Tier2Max - 1, Tier2Max, Tier2Max + 1, Tier2Max + 2}}
    \cup {<<n, 1>> : n \in {Tier3Max - 2, Tier3Max - 1, Tier3Max, Tier3Max + 1}}
    \cup {<<BigRun, BigRun - 1>>, <<BigRun, BigRun>>}
    \cup {<<BigRun, BigRun, BigRun, n>> : n \in {BigRun - 2, BigRun - 1, BigRun}}
    \cup {<<BigRun, BigRun, BigRun, BigRun, n>> : n \in {1, 2, 255, 256, Limb, BigRun}}

MkBytes(shape, first) ==
    [i \in 1..Len(shape) |-> Run((first + i - 1) % 256, shape[i])]

FramerInputs == {MkBytes(shape, b) : shape \in Shapes, b \in FillBytes}

InitFramer ==
    /\ InitApp
    /\ call \in {Pending("wrapBytesAsCbor", bytes) : bytes \in FramerInputs}

WrapBytesAsCbor == Finish("wrapBytesAsCbor", wrapBytesAsCbor(call.arg))

NextFramer == WrapBytesAsCbor

SpecFramer == InitFramer /\ [][NextFramer]_vars

-----------------------------------------------------------------------------
(* Claims about wrapBytesAsCbor                                            *)

\* Length of an array, counted run by run.
RECURSIVE CountFrom(_, _)
CountFrom(bytes, i) ==
    IF i > Len(bytes) THEN [hi |-> 0, lo |-> 0]
    ELSE LET rest == CountFrom(bytes, i + 1)
             lo == rest.lo + bytes[i].n
         IN [hi |-> rest.hi + (lo \div 65536), lo |-> lo % 65536]

TotalLen(bytes) == CountFrom(bytes, 1)

IsWrapCall == Finished("wrapBytesAsCbor")

HeaderBytes(k) == [i \in 1..k |-> call.ret[i].b]

HeaderIsUnits(k) ==
    /\ Len(call.ret) >= k
    /\ \A i \in 1..k : call.ret[i].n = 1

PayloadAfter(k) == SubSeq(call.ret, k + 1, Len(call.ret))

Framed(k) ==
    /\ HeaderIsUnits(k)
    /\ PayloadAfter(k) = call.arg
    /\ TotalLen(call.ret) = NumAdd(TotalLen(call.arg), k)

\* C1: the output is header ++ input with the input verbatim, and the
\* header is fixed by the input length L: 0..23 -> 0x40+L; 24..255 ->
\* 0x58, L; 256..65535 -> 0x59, L div 256, L mod 256; >= 65536 -> five
\* bytes starting 0x5a. The output length is L+1, L+2, L+3 or L+5.
C1_HeaderByTier ==
    IsWrapCall =>
        LET L == TotalLen(call.arg) IN
        IF L.hi = 0 /\ L.lo <= 23
        THEN Framed(1) /\ HeaderBytes(1) = <<64 + L.lo>>
        ELSE IF L.hi = 0 /\ L.lo <= 255
        THEN Framed(2) /\ HeaderBytes(2) = <<88, L.lo>>
        ELSE IF L.hi = 0
        THEN Framed(3) /\ HeaderBytes(3) = <<89, L.lo \div 256, L.lo % 256>>
        ELSE Framed(5) /\ HeaderBytes(1) = <<90>>

C1_Witness ==
    /\ IsWrapCall
    /\ TotalLen(call.arg) = Num(1, 0)
    /\ call.ret[1] = Run(90, 1)
    /\ Len(call.ret) = Len(call.arg) + 5

\* The 4-byte length field of a five-byte header, as a number.
LengthField == Num(call.ret[2].b * 256 + call.ret[3].b,
                   call.ret[4].b * 256 + call.ret[5].b)

IsLargeWrap == IsWrapCall /\ TotalLen(call.arg).hi >= 1

\* C2 as stated: for every L >= 65536, without upper bound, the four bytes
\* after 0x5a read big-endian equal L.
C2_FieldEqualsLength ==
    IsLargeWrap => (Framed(5) /\ LengthField = TotalLen(call.arg))

\* C2 amended: for 65536 <= L < 2^32 the four bytes after 0x5a read
\* big-endian equal L; for L >= 2^32 they equal L mod 2^32; every length is
\* framed with the payload verbatim.
C2_FieldEqualsLengthMod32 ==
    IsLargeWrap =>
        LET L == TotalLen(call.arg) IN
        /\ Framed(5)
        /\ L.hi < Limb => LengthField = L
        /\ L.hi >= Limb => LengthField = Num(L.hi % Limb, L.lo)

C2_Witness ==
    /\ IsLargeWrap
    /\ TotalLen(call.arg) = Num(Limb - 1, Limb - 1)
    /\ LengthField = Num(Limb - 1, Limb - 1)

-----------------------------------------------------------------------------
(* Inputs of normalizeHex: every string of at most MaxHexLen characters    *)
(* over whitespace, the prefix letters, hex digits of both cases and a     *)
(* non-hex letter.                                                         *)

HexAlphabet == {" ", "0", "x", "X", "a", "B", "g"}

StringsOver(alphabet, maxLen) == UNION {[1..k -> alphabet] : k \in 0..maxLen}

HexInputs == StringsOver(HexAlphabet, MaxHexLen)

InitHex ==
    /\ InitApp
    /\ call \in {Pending("normalizeHex", str) : str \in HexInputs}

NormalizeHex == Finish("normalizeHex", normalizeHex(call.arg))

NextHex == NormalizeHex

SpecHex == InitHex /\ [][NextHex]_vars

-----------------------------------------------------------------------------
(* Claims about normalizeHex                                               *)

IsNormalizeCall == Finished("normalizeHex")

NoWhitespace(s) == SelectSeq(s, LAMBDA c : c \notin {" ", "\t", "\n"})

\* What is left of s once whitespace and an optional 0x / 0X are removed.
Remainder(s) ==
    LET t == NoWhitespace(s) IN
    IF Len(t) >= 2 /\ t[1] = "0" /\ t[2] \in {"x", "X"}
    THEN SubSeq(t, 3, Len(t))
    ELSE t

HexCharSet == {"0", "1", "2", "3", "4", "5", "6", "7", "8", "9",
               "a", "b", "c", "d", "e", "f", "A", "B", "C", "D", "E", "F"}

HasNonHex(s) == \E i \in 1..Len(s) : s[i] \notin HexCharSet

\* C4: normalizeHex fails with a ParseError, returning no string, when the
\* remainder is empty, holds a non-hex character, or has odd length, and
\* the failures take that precedence: empty, then non-hex, then odd.
C4_FailurePrecedence ==
    IsNormalizeCall =>
        LET r == Remainder(call.arg) IN
        /\ r = <<>> => call.ret = ParseError(MsgHexEmpty)
        /\ (r # <<>> /\ HasNonHex(r)) => call.ret = ParseError(MsgHexNonHex)
        /\ (r # <<>> /\ ~HasNonHex(r) /\ Len(r) % 2 = 1)
               => call.ret = ParseError(MsgHexOdd)

C4_Witness ==
    /\ IsNormalizeCall
    /\ Len(Remainder(call.arg)) = 3
    /\ HasNonHex(Remainder(call.arg))
    /\ call.ret = ParseError(MsgHexNonHex)

LowerHexCharSet == {"0", "1", "2", "3", "4", "5", "6", "7", "8", "9",
                    "a", "b", "c", "d", "e", "f"}

Lowered(c) ==
    CASE c = "A" -> "a" [] c = "B" -> "b" [] c = "C" -> "c"
      [] c = "D" -> "d" [] c = "E" -> "e" [] c = "F" -> "f"
      [] c = "X" -> "x" [] OTHER -> c

\* The lower-case hex string h that s spells once case, whitespace and an
\* optional prefix are disregarded.
Spelled(s) ==
    LET t == [i \in 1..Len(NoWhitespace(s)) |-> Lowered(NoWhitespace(s)[i])] IN
    IF Len(t) >= 2 /\ t[1] = "0" /\ t[2] = "x" THEN SubSeq(t, 3, Len(t)) ELSE t

IsEvenLowerHex(h) ==
    /\ Len(h) >= 2
    /\ Len(h) % 2 = 0
    /\ \A i \in 1..Len(h) : h[i] \in LowerHexCharSet

\* C5: an input that differs from a non-empty even-length lower-case hex
\* string h only by letter case, whitespace anywhere and an optional 0x or
\* 0X prefix normalizes to exactly h; normalizeHex maps each of its own
\* successful outputs to itself.
C5_NormalizesToCanonical ==
    IsNormalizeCall =>
        /\ IsEvenLowerHex(Spelled(call.arg))
               => call.ret = Return(Spelled(call.arg))
        /\ call.ret.ok => normalizeHex(call.ret.value) = call.ret

C5_Witness ==
    /\ IsNormalizeCall
    /\ call.arg = <<"0", " ", "X", "a", "B">>
    /\ call.ret = Return(<<"a", "b">>)

-----------------------------------------------------------------------------
(* Inputs of the version extractor: an opening token, a candidate version  *)
(* token of at most MaxTokLen digits and dots, optionally preceded or      *)
(* followed by another character, and a tail with or without the closing   *)
(* delimiter. The external parser either accepts the source or throws.     *)

Heads == {ProgramToken \o <<" ">>,
          <<" ">> \o ProgramToken \o <<"\n">>,
          <<"(", "l", "a", "m", " ">>}

TokPrefixes == {<<>>, <<"a">>}

TokSuffixes == {<<>>, <<"a">>}

Tails == {<<>>, <<")">>, <<" ", "(", "x", ")", ")", "\n">>}

VersionTokens ==
    {pre \o tok \o post : pre \in TokPrefixes,
                          tok \in StringsOver({"1", "."}, MaxTokLen),
                          post \in TokSuffixes}

VersionSources ==
    {head \o tok \o tail : head \in Heads, tok \in VersionTokens, tail \in Tails}

MsgTextParser == <<"unexpected token while parsing UPLC text">>

ParserOutcomes == {Return(Lambda(ErrorTerm)), Throw("Error", MsgTextParser)}

InitVersion ==
    /\ InitApp
    /\ call \in {Pending("detectVersionFromSource", src) : src \in VersionSources}
            \cup {Pending("parseTextSource", [source |-> src, parsed |-> p]) :
                      src \in VersionSources, p \in ParserOutcomes}

DetectVersionFromSource ==
    Finish("detectVersionFromSource", detectVersionFromSource(call.arg))

ParseTextSource ==
    Finish("parseTextSource", parseTextSource(call.arg.source, call.arg.parsed))

NextVersion == DetectVersionFromSource \/ ParseTextSource

SpecVersion == InitVersion /\ [][NextVersion]_vars

-----------------------------------------------------------------------------
(* Claims about the version extractor                                      *)

IsDetectCall == Finished("detectVersionFromSource")

IsTextCall == Finished("parseTextSource")

\* The source of the finished version-extractor or text-path call.
SourceOfCall == IF call.fn = "parseTextSource" THEN call.arg.source ELSE call.arg

Blank(c) == c \in {" ", "\t", "\n"}

\* s without its leading and trailing blanks.
Stripped(s) ==
    LET solid == {i \in 1..Len(s) : ~Blank(s[i])} IN
    IF solid = {} THEN <<>>
    ELSE SubSeq(s, CHOOSE i \in solid : \A j \in solid : i <= j,
                   CHOOSE i \in solid : \A j \in solid : i >= j)

BeginsWithHeader(s) ==
    /\ Len(Stripped(s)) >= 8
    /\ SubSeq(Stripped(s), 1, 8) = <<"(", "p", "r", "o", "g", "r", "a", "m">>

\* The content between the header token and the final closing delimiter.
Content(s) ==
    LET t == Stripped(s)
        closers == {i \in 1..Len(t) : t[i] = ")"}
        stop == IF closers = {} THEN Len(t)
                ELSE (CHOOSE i \in closers : \A j \in closers : i >= j) - 1
    IN Stripped(SubSeq(t, 9, stop))

Digit(c) == c \in {"0", "1", "2", "3", "4", "5", "6", "7", "8", "9"}

DigitGroup(c, a, b) == a <= b /\ \A x \in a..b : Digit(c[x])

\* c starts with three dot-separated digit groups ending at position k.
ThreeGroupsTo(c, k) ==
    \E i, j \in 1..Len(c) :
        /\ i + 1 < j /\ j + 1 < k /\ k <= Len(c)
        /\ DigitGroup(c, 1, i) /\ c[i + 1] = "."
        /\ DigitGroup(c, i + 2, j) /\ c[j + 1] = "."
        /\ DigitGroup(c, j + 2, k)

\* c starts with a token of four or more dot-separated digit groups.
StartsWithFourGroups(c) ==
    \E k \in 1..Len(c) :
        /\ ThreeGroupsTo(c, k)
        /\ k + 2 <= Len(c) /\ c[k + 1] = "." /\ Digit(c[k + 2])

StartsWithThreeGroups(c) == \E k \in 1..Len(c) : ThreeGroupsTo(c, k)

\* C6 as stated: a source that begins with the header token and whose
\* content starts with a token of four or more dot-separated digit groups
\* makes detectVersionFromSource fail with a ParseError; no version is
\* returned.
C6_RejectsFourSegments ==
    (IsDetectCall /\ BeginsWithHeader(call.arg)
                  /\ StartsWithFourGroups(Content(call.arg)))
        => (~call.ret.ok /\ call.ret.name = "ParseError")

DefaultVersionString == <<"1", ".", "1", ".", "0">>

\* C7: for a source whose trimmed form does not begin with the header
\* token detectVersionFromSource returns the default version 1.1.0 and
\* does not fail; when the external parser accepts such a source the text
\* path succeeds and its version prints as "1.1.0".
C7_DefaultVersion ==
    /\ (IsDetectCall /\ ~BeginsWithHeader(call.arg))
           => call.ret = Return([major |-> 1, minor |-> 1, patch |-> 0])
    /\ (IsTextCall /\ ~BeginsWithHeader(call.arg.source) /\ call.arg.parsed.ok)
           => /\ call.ret.ok
              /\ call.ret.value.term = call.arg.parsed.value
              /\ versionToString(call.ret.value.version) = DefaultVersionString

C7_Witness ==
    /\ IsTextCall
    /\ SubSeq(call.arg.source, 1, 4) = <<"(", "l", "a", "m">>
    /\ call.arg.parsed.ok
    /\ call.ret.ok
    /\ call.ret.value.version = [major |-> 1, minor |-> 1, patch |-> 0]

\* C8: for a source that begins with the header token but whose content
\* does not start with a three-integer dotted version, version extraction
\* fails with the ParseError "unable to read the version" and never yields
\* the default; the text path fails on it whatever the external parser did,
\* and with that same message when the parser had accepted the source.
C8_UnreadableVersionFails ==
    (BeginsWithHeader(SourceOfCall) /\ ~StartsWithThreeGroups(Content(SourceOfCall)))
        => /\ IsDetectCall => call.ret = ParseError(MsgVersionUnreadable)
           /\ IsTextCall => /\ ~call.ret.ok
                            /\ call.ret.name = "ParseError"
                            /\ call.arg.parsed.ok
                                   => call.ret.message = MsgVersionUnreadable

C8_Witness ==
    /\ IsTextCall
    /\ BeginsWithHeader(call.arg.source)
    /\ Content(call.arg.source) = <<"a", "1", ".", "1", ".", "1">>
    /\ call.arg.parsed.ok
    /\ call.ret = ParseError(MsgVersionUnreadable)

-----------------------------------------------------------------------------
(* Round trip: encodeProgram on a program, then parseCborHex on the framed *)
(* hex it produced.                                                        *)

InitRoundTrip ==
    /\ InitApp
    /\ call \in {Pending("encodeProgram", P) : P \in Programs}

EncodeProgram ==
    Finish("encodeProgram", encodeProgram(call.arg.body, call.arg.version))

ParseCborHex ==
    /\ Finished("encodeProgram")
    /\ call' = [fn |-> "parseCborHex",
                arg |-> call.ret.cborHex,
                first |-> call.ret,
                done |-> TRUE,
                ret |-> parseCborHex(call.ret.cborHex)]
    /\ UNCHANGED appVars

NextRoundTrip == EncodeProgram \/ ParseCborHex

SpecRoundTrip == InitRoundTrip /\ [][NextRoundTrip]_vars

\* C3: parseCborHex applied to the framed hex that encodeProgram produced
\* for a program succeeds and yields flatBytes, flatHex, cborBytes and
\* cborHex identical to those of the first encoding.
C3_RoundTrip ==
    Finished("parseCborHex") =>
        /\ call.ret.ok
        /\ call.ret.value.flatBytes = call.first.flatBytes
        /\ call.ret.value.flatHex = call.first.flatHex
        /\ call.ret.value.cborBytes = call.first.cborBytes
        /\ call.ret.value.cborHex = call.first.cborHex
        /\ call.ret.value.program = call.first.program

C3_Witness ==
    /\ Finished("parseCborHex")
    /\ call.ret.ok
    /\ Len(call.first.flatBytes) = Tier2Max + 1
    /\ call.first.cborBytes[1] = Run(89, 1)
    /\ call.ret.value.cborHex = call.first.cborHex

-----------------------------------------------------------------------------
(* The App: input area, Convert, Clear, Copy and the pretty-print toggle   *)

UNDEFINED == [undefined |-> TRUE]

MsgNothingToParse ==
    <<"Paste a UPLC program or its CBOR hex representation to begin.">>
MsgParsedText == <<"Parsed source as plain UPLC.">>
MsgParsedCbor == <<"Parsed source as CBOR-wrapped script.">>
MsgCopied == <<"Copied value to clipboard.">>
MsgCopyFailed == <<"Copy failed, please copy manually.">>
LabelText == <<"Failed to parse as UPLC text: ">>
LabelCbor == <<"Failed to parse as CBOR hex: ">>

\* [a, b].join(" ")
joinWithSpace(a, b) == a \o <<" ">> \o b

\* What the external text parser may do with a source: accept it as one of
\* two terms, or throw one of two messages.
MsgTextParserEmpty == <<>>

TextParserOutcomes ==
    {Return(Lambda(ConstInt(42))), Return(ErrorTerm),
     Throw("Error", MsgTextParser), Throw("Error", MsgTextParserEmpty)}

ViewerResult(kind, version, pretty, encoding) ==
    [kind |-> kind,
     version |-> versionToString(version),
     pretty |-> pretty,
     compact |-> UNDEFINED,
     flatHex |-> encoding.flatHex,
     flatLength |-> byteLength(encoding.flatBytes),
     cborHex |-> encoding.cborHex,
     cborLength |-> byteLength(encoding.cborBytes)]

\* One call made by handleProcess: the function, its argument, whether it
\* returned, and the message it threw otherwise.
Entry(fn, arg, outcome) ==
    [fn |-> fn, arg |-> arg, ok |-> outcome.ok,
     message |-> IF outcome.ok THEN <<>> ELSE outcome.message]

\* The calls of the text path up to its first failure.
textCalls(trimmed, parsed) ==
    <<Entry("parseUPLCText", trimmed, parsed)>>
    \o (IF parsed.ok
        THEN <<Entry("detectVersionFromSource", trimmed, detectVersionFromSource(trimmed))>>
        ELSE <<>>)

textSuccess(trimmed, parsed, text) ==
    LET encoding == encodeProgram(text.value.term, text.value.version) IN
    [result |-> ViewerResult("text", text.value.version, text.value.pretty, encoding),
     error |-> NULL,
     lastAction |-> Str(MsgParsedText),
     textError |-> NULL,
     trace |-> textCalls(trimmed, parsed)
               \o <<Entry("encodeProgram", encoding.program, Return(encoding))>>]

cborSuccess(trimmed, parsed, tmsg, cbor) ==
    [result |-> ViewerResult("cbor", cbor.value.version, cbor.value.pretty, cbor.value),
     error |-> NULL,
     lastAction |-> Str(MsgParsedCbor),
     textError |-> tmsg,
     trace |-> textCalls(trimmed, parsed) \o <<Entry("parseCborHex", trimmed, cbor)>>]

\* textError ?? "unknown error."
textErrorOr(tmsg) == IF tmsg = NULL THEN <<"unknown error.">> ELSE tmsg.str

\* Mutant: the binary path entered whatever the text path did.
handleProcessOutcome_alwaysCbor(trimmed, parsed) ==
    LET text == parseTextSource(trimmed, parsed)
        tmsg == IF text.ok THEN NULL ELSE Str(text.message)
        cbor == parseCborHex(trimmed)
    IN IF cbor.ok THEN cborSuccess(trimmed, parsed, tmsg, cbor)
       ELSE [result |-> NULL,
             error |-> Str(joinWithSpace(LabelText \o textErrorOr(tmsg),
                                         LabelCbor \o cbor.message)),
             lastAction |-> NULL,
             textError |-> tmsg,
             trace |-> textCalls(trimmed, parsed)
                       \o <<Entry("parseCborHex", trimmed, cbor)>>]

\* Mutant: the combined message carrying only the binary-path failure.
handleProcessOutcome_cborOnly(trimmed, parsed) ==
    LET text == parseTextSource(trimmed, parsed) IN
    IF text.ok THEN textSuccess(trimmed, parsed, text)
    ELSE LET tmsg == Str(text.message)
             cbor == parseCborHex(trimmed)
         IN IF cbor.ok THEN cborSuccess(trimmed, parsed, tmsg, cbor)
            ELSE [result |-> NULL,
                  error |-> Str(LabelCbor \o cbor.message),
                  lastAction |-> NULL,
                  textError |-> tmsg,
                  trace |-> textCalls(trimmed, parsed)
                            \o <<Entry("parseCborHex", trimmed, cbor)>>]

\* Mutant: the result of an earlier Convert kept when both paths fail.
handleProcessOutcome_staleResult(trimmed, parsed) ==
    LET text == parseTextSource(trimmed, parsed) IN
    IF text.ok THEN textSuccess(trimmed, parsed, text)
    ELSE LET tmsg == Str(text.message)
             cbor == parseCborHex(trimmed)
         IN IF cbor.ok THEN cborSuccess(trimmed, parsed, tmsg, cbor)
            ELSE [result |-> result,
                  error |-> Str(joinWithSpace(LabelText \o textErrorOr(tmsg),
                                              LabelCbor \o cbor.message)),
                  lastAction |-> NULL,
                  textError |-> tmsg,
                  trace |-> textCalls(trimmed, parsed)
                            \o <<Entry("parseCborHex", trimmed, cbor)>>]

\* The two try blocks of handleProcess on a non-empty trimmed input, where
\* parsed is what the external text parser did with it: the state the
\* handler leaves, its local textError and the calls it made.
handleProcessOutcome(trimmed, parsed) ==
    LET text == parseTextSource(trimmed, parsed) IN
    IF text.ok THEN textSuccess(trimmed, parsed, text)
    ELSE LET tmsg == Str(text.message)
             cbor == parseCborHex(trimmed)
         IN IF cbor.ok THEN cborSuccess(trimmed, parsed, tmsg, cbor)
            ELSE [result |-> NULL,
                  error |-> Str(joinWithSpace(LabelText \o textErrorOr(tmsg),
                                              LabelCbor \o cbor.message)),
                  lastAction |-> NULL,
                  textError |-> tmsg,
                  trace |-> textCalls(trimmed, parsed)
                            \o <<Entry("parseCborHex", trimmed, cbor)>>]

\* Texts a user may put in the input area.
TextBareTerm == <<"(", "l", "a", "m", " ", "x", " ", "x", ")">>
TextProgram == <<"(", "p", "r", "o", "g", "r", "a", "m", " ", "1", ".", "1", ".", "0", " ", "(", "l", "a", "m", " ", "x", " ", "x", ")", ")">>
TextProgramPadded == <<" ", "(", "p", "r", "o", "g", "r", "a", "m", "\n", "2", ".", "0", ".", "0", " ", "(", "e", "r", "r", "o", "r", ")", " ", ")", "\n">>
TextProgramNoVersion == <<"(", "p", "r", "o", "g", "r", "a", "m", " ", "a", "b", "c", " ", "(", "e", "r", "r", "o", "r", ")", ")">>
TextProgramFourSegments == <<"(", "p", "r", "o", "g", "r", "a", "m", " ", "1", ".", "0", ".", "1", "0", ".", "5", " ", "(", "e", "r", "r", "o", "r", ")", ")">>

AppPrograms ==
    {UPLCProgram(Version(1, 0, 0), Lambda(ErrorTerm)),
     UPLCProgram(Version(1, 1, 0), ConstBytes(ByteString(Tier1Max - 6, 0)))}

cborHexOf(program) == toHex(wrapBytesAsCbor(compileUPLC(program)))

toUpperCase(s) ==
    [i \in 1..Len(s) |->
        IF \E k \in 1..Len(LowerAlpha) : LowerAlpha[k] = s[i]
        THEN UpperAlpha[IndexIn(LowerAlpha, s[i])]
        ELSE s[i]]

HexOddLength == <<"a", "b", "c">>
HexNotHex == <<"0", "x", "z", "z">>
HexPrefixOnly == <<"0", "x">>
HexNotCbor == <<"f", "f", "0", "0">>
HexTruncated == <<"4", "5", "0", "0">>
HexNotFlat == <<"4", "3", "0", "1", "0", "1", "0", "9">>

AppInputs ==
    {<<>>, <<" ", "\n">>}
    \cup {TextBareTerm, TextProgram, TextProgramPadded,
          TextProgramNoVersion, TextProgramFourSegments}
    \cup {cborHexOf(P) : P \in AppPrograms}
    \cup {<<" ", "0", "X">> \o toUpperCase(cborHexOf(P)) \o <<"\n">> : P \in AppPrograms}
    \cup {HexOddLength, HexNotHex, HexPrefixOnly, HexNotCbor, HexTruncated, HexNotFlat}

Init ==
    /\ InitApp
    /\ call = NoCall

\* The handleProcess invocation whose outcome the state shows: the input
\* it read.
Handled(value) == [fn |-> "handleProcess", arg |-> value, done |-> TRUE]

\* onChange of the input area
SetInput ==
    /\ \E value \in AppInputs : input' = value
    /\ UNCHANGED <<result, error, lastAction, prettyMode, textError, trace, call>>

HandleClear ==
    /\ input' = <<>>
    /\ result' = NULL
    /\ error' = NULL
    /\ lastAction' = NULL
    /\ prettyMode' = FALSE
    /\ textError' = NULL
    /\ trace' = <<>>
    /\ call' = NoCall

\* Mutant: no early return, an empty input goes on to the two try blocks.
HandleProcessEmpty_fallsThrough ==
    /\ trim(input) = <<>>
    /\ \E parsed \in TextParserOutcomes :
       \E out \in {handleProcessOutcome(trim(input), parsed)} :
          /\ result' = out.result
          /\ error' = out.error
          /\ lastAction' = out.lastAction
          /\ textError' = out.textError
          /\ trace' = out.trace
    /\ call' = Handled(input)
    /\ UNCHANGED <<input, prettyMode>>

HandleProcessEmpty ==
    /\ trim(input) = <<>>
    /\ result' = NULL
    /\ error' = Str(MsgNothingToParse)
    /\ lastAction' = NULL
    /\ textError' = NULL
    /\ trace' = <<>>
    /\ call' = Handled(input)
    /\ UNCHANGED <<input, prettyMode>>

HandleProcessParse ==
    /\ trim(input) # <<>>
    /\ \E parsed \in TextParserOutcomes :
       \E out \in {handleProcessOutcome(trim(input), parsed)} :
          /\ result' = out.result
          /\ error' = out.error
          /\ lastAction' = out.lastAction
          /\ textError' = out.textError
          /\ trace' = out.trace
    /\ call' = Handled(input)
    /\ UNCHANGED <<input, prettyMode>>

HandleProcess == HandleProcessEmpty \/ HandleProcessParse

\* The copy buttons exist only while a result is shown.
HandleCopy ==
    /\ result # NULL
    /\ \E value \in {result.flatHex, result.cborHex} :
          lastAction' \in {Str(MsgCopied), Str(MsgCopyFailed)}
    /\ UNCHANGED <<input, result, error, prettyMode, textError, trace, call>>

\* The pretty-print checkbox exists only while a result is shown.
SetPrettyMode ==
    /\ result # NULL
    /\ prettyMode' = ~prettyMode
    /\ UNCHANGED <<input, result, error, lastAction, textError, trace, call>>

Next ==
    \/ SetInput
    \/ HandleClear
    \/ HandleProcess
    \/ HandleCopy
    \/ SetPrettyMode

Spec == Init /\ [][Next]_vars

-----------------------------------------------------------------------------
(* Claims about handleProcess                                              *)

\* The last handleProcess went past the empty-input check.
Processed == trace # <<>>

LastCall == trace[Len(trace)]

ParserAccepted == Processed /\ trace[1].fn = "parseUPLCText" /\ trace[1].ok

Attempted(fn) == \E i \in 1..Len(trace) : trace[i].fn = fn

\* Every call of the text path returned.
TextPathSucceeded ==
    /\ Processed
    /\ \A i \in 1..Len(trace) :
           trace[i].fn \in {"parseUPLCText", "detectVersionFromSource", "encodeProgram"}
               => trace[i].ok
    /\ Attempted("encodeProgram")

\* A call of the text path that threw, made before position i.
TextFailureBefore(i) ==
    \E j \in 1..(i - 1) :
        /\ trace[j].fn \in {"parseUPLCText", "detectVersionFromSource"}
        /\ ~trace[j].ok

\* C9 as stated: whenever the external text parser accepted the input the
\* call ends in success with source kind text and parseCborHex is not
\* attempted; parseCborHex is attempted only after the text parser failed.
C9_ParserSuccessIsTextSuccess ==
    /\ ParserAccepted =>
           (result # NULL /\ result.kind = "text" /\ ~Attempted("parseCborHex"))
    /\ (Processed /\ Attempted("parseCborHex")) => ~trace[1].ok

\* C9 amended: whenever the whole text path succeeded (the parser accepted
\* the input and version extraction did not throw) the call ends in
\* success with source kind text and parseCborHex is not attempted;
\* parseCborHex is attempted only after a call of the text path has
\* thrown, the parser or the version extraction that follows it, and the
\* text parser is always called first.
C9_TextPathFirst ==
    Processed =>
        /\ trace[1].fn = "parseUPLCText"
        /\ TextPathSucceeded =>
               /\ result # NULL /\ result.kind = "text" /\ error = NULL
               /\ ~Attempted("parseCborHex")
        /\ \A i \in 1..Len(trace) :
               trace[i].fn = "parseCborHex"
                   => (i = Len(trace) /\ TextFailureBefore(i) /\ textError # NULL)
        /\ (result # NULL /\ result.kind = "cbor") => Attempted("parseCborHex")

C9_Witness ==
    /\ ParserAccepted
    /\ TextPathSucceeded
    /\ trace[1].arg = TextProgram
    /\ result # NULL /\ result.kind = "text"
    /\ ~Attempted("parseCborHex")

BothPathsFailed ==
    /\ Processed
    /\ LastCall.fn = "parseCborHex"
    /\ ~LastCall.ok

\* The message thrown by the call of the text path that failed.
TextFailureMessage ==
    LET j == CHOOSE i \in 1..Len(trace) :
                 trace[i].fn \in {"parseUPLCText", "detectVersionFromSource"} /\ ~trace[i].ok
    IN trace[j].message

\* C10: when the text path and the binary path have both failed, the one
\* error string is the text-path failure message under the text label
\* followed by the binary-path failure message under the binary label,
\* both verbatim, and there is no result. The binary-path message is the
\* hex-normalisation failure when normalisation failed.
C10_CombinedDiagnostic ==
    BothPathsFailed =>
        /\ result = NULL
        /\ error = [str |-> <<"Failed to parse as UPLC text: ">> \o TextFailureMessage
                            \o <<" ">>
                            \o <<"Failed to parse as CBOR hex: ">> \o LastCall.message]
        /\ ~normalizeHex(LastCall.arg).ok
               => LastCall.message = normalizeHex(LastCall.arg).message

C10_Witness ==
    /\ BothPathsFailed
    /\ ParserAccepted
    /\ TextFailureMessage = MsgVersionUnreadable
    /\ LastCall.message = MsgHexNonHex
    /\ error # NULL

C10_WitnessDecoder ==
    /\ BothPathsFailed
    /\ ~ParserAccepted
    /\ TextFailureMessage = MsgTextParser
    /\ LastCall.message = MsgBadFlat
    /\ error # NULL

\* The state shows the outcome of a handleProcess that read an input empty
\* after trimming.
EmptyConvert == call.fn = "handleProcess" /\ trim(call.arg) = <<>>

\* C11: a handleProcess on an input that is empty after trimming leaves the
\* error set to its own message, which is not the combined two-path
\* diagnostic, has called neither the text parser nor parseCborHex, and
\* leaves no result; conversely every handleProcess that called a parser
\* read an input that is not empty after trimming.
C11_EmptyInputRejected ==
    /\ EmptyConvert =>
           /\ error = Str(MsgNothingToParse)
           /\ error.str[1] # LabelText[1]
           /\ trace = <<>>
           /\ ~Attempted("parseUPLCText") /\ ~Attempted("parseCborHex")
           /\ textError = NULL
           /\ result = NULL
    /\ (call.fn = "handleProcess" /\ Processed) => trim(call.arg) # <<>>

C11_Witness ==
    /\ EmptyConvert
    /\ call.arg = <<" ", "\n">>
    /\ error = Str(MsgNothingToParse)
    /\ result = NULL

\* C12: no reachable state holds a result together with an error, and the
\* state a handleProcess leaves holds exactly one of the two: a failed
\* Convert leaves no result, whatever an earlier Convert produced, and a
\* successful Convert leaves no error.
C12_ResultXorError ==
    /\ ~(result # NULL /\ error # NULL)
    /\ call.fn = "handleProcess" => ((result = NULL) # (error = NULL))
    /\ BothPathsFailed => result = NULL
    /\ (Processed /\ ~BothPathsFailed) => (result # NULL /\ error = NULL)

\* A failed Convert after a successful one: the checkbox was ticked while
\* the earlier result was shown.
C12_Witness ==
    /\ prettyMode
    /\ BothPathsFailed
    /\ error # NULL
    /\ result = NULL

-----------------------------------------------------------------------------
(* Language detection (languageDetection.ts)                               *)

\* The term classes of the library that the code above does not build.
Case(constrTerm, continuations) ==
    [tag |-> "Case", constrTerm |-> constrTerm, continuations |-> continuations]
Constr(index, terms) == [tag |-> "Constr", index |-> index, terms |-> terms]
Application(funcTerm, argTerm) ==
    [tag |-> "Application", funcTerm |-> funcTerm, argTerm |-> argTerm]
Force(termToForce) == [tag |-> "Force", termToForce |-> termToForce]
Builtin(name) == [tag |-> "Builtin", name |-> name]
UPLCVar(deBruijn) == [tag |-> "UPLCVar", deBruijn |-> deBruijn]
\* UPLCConst of type string.
ConstString(text) == [tag |-> "UPLCConst", type |-> "string", text |-> text]

MARKER_SAMPLE_LIMIT == 5

aikenMarkers ==
    <<
      <<"d", "e", "l", "a", "y", "[", "(", "e", "r", "r", "o", "r", ")",
        "(", "f", "o", "r", "c", "e", "(", "e", "r", "r", "o", "r", ")",
        ")", "]">>,
      <<"L", "i", "s", "t", "/", "T", "u", "p", "l", "e", "/", "C", "o",
        "n", "s", "t", "r", "c", "o", "n", "t", "a", "i", "n", "s", "m",
        "o", "r", "e", "i", "t", "e", "m", "s", "t", "h", "a", "n", "e",
        "x", "p", "e", "c", "t", "e", "d">>,
      <<"E", "x", "p", "e", "c", "t", "e", "d", "n", "o", "i", "t", "e",
        "m", "s", "f", "o", "r", "L", "i", "s", "t">>,
      <<"E", "x", "p", "e", "c", "t", "e", "d", "n", "o", "f", "i", "e",
        "l", "d", "s", "f", "o", "r", "C", "o", "n", "s", "t", "r">>,
      <<"E", "x", "p", "e", "c", "t", "e", "d", "o", "n", "i", "n", "c",
        "o", "r", "r", "e", "c", "t", "B", "o", "o", "l", "e", "a", "n",
        "v", "a", "r", "i", "a", "n", "t">>,
      <<"E", "x", "p", "e", "c", "t", "e", "d", "o", "n", "i", "n", "c",
        "o", "r", "r", "e", "c", "t", "C", "o", "n", "s", "t", "r", "v",
        "a", "r", "i", "a", "n", "t">>,
      <<"C", "o", "n", "s", "t", "r", "i", "n", "d", "e", "x", "d", "i",
        "d", "n", "'", "t", "m", "a", "t", "c", "h", "a", "t", "y", "p",
        "e", "v", "a", "r", "i", "a", "n", "t">>,
      <<"(", "f", "o", "r", "c", "e", "(", "b", "u", "i", "l", "t", "i",
        "n", "m", "k", "C", "o", "n", "s", ")", ")", "]", ")", "(", "f",
        "o", "r", "c", "e", "(", "b", "u", "i", "l", "t", "i", "n", "h",
        "e", "a", "d", "L", "i", "s", "t", ")", ")", "]", ")", "(", "f",
        "o", "r", "c", "e", "(", "b", "u", "i", "l", "t", "i", "n", "t",
        "a", "i", "l", "L", "i", "s", "t", ")", ")">>
    >>

plutarchMarkers ==
    <<
      <<"c", "o", "n", "s", "t", "r", "i", "n", "g", "\"", "c", "a", "n",
        "'", "t", "g", "e", "t", "a", "n", "y", "c", "o", "n", "t", "i",
        "n", "u", "i", "n", "g", "o", "u", "t", "p", "u", "t", "s">>,
      <<"c", "o", "n", "s", "t", "r", "i", "n", "g", "\"", "P", "a", "t",
        "t", "e", "r", "n", "m", "a", "t", "c", "h", "i", "n", "g", "f",
        "a", "i", "l", "u", "r", "e", "i", "n", "Q", "u", "a", "l", "i",
        "f", "i", "e", "d", "D", "o", "s", "y", "n", "t", "a", "x">>,
      <<"c", "o", "n", "s", "t", "r", "i", "n", "g", "\"", "r", "e", "a",
        "c", "h", "e", "d", "e", "n", "d", "o", "f", "s", "u", "m", "w",
        "h", "i", "l", "e", "s", "t", "i", "l", "l">>,
      <<"c", "o", "n", "s", "t", "r", "i", "n", "g", "\"", "P", "a", "t",
        "t", "e", "r", "n", "m", "a", "t", "c", "h", "i", "n", "g", "f",
        "a", "i", "l", "u", "r", "e", "i", "n", "T", "e", "r", "m", "C",
        "o", "n", "t">>,
      <<"c", "o", "n", "s", "t", "r", "i", "n", "g", "\"", "p", "t", "r",
        "y", "P", "o", "s", "i", "t", "i", "v", "e">>,
      <<"c", "o", "n", "s", "t", "r", "i", "n", "g", "\"", "p", "f", "r",
        "o", "m", "J", "u", "s", "t">>,
      <<"c", "o", "n", "s", "t", "r", "i", "n", "g", "\"", "p", "e", "l",
        "e", "m", "A", "t">>,
      <<"c", "o", "n", "s", "t", "r", "i", "n", "g", "\"", "p", "t", "r",
        "y", "F", "r", "o", "m", "(", "T", "x", "I", "d", ")">>,
      <<"c", "o", "n", "s", "t", "r", "i", "n", "g", "\"", "p", "t", "r",
        "y", "F", "r", "o", "m", "(", "P", "O", "S", "I", "X", "T", "i",
        "m", "e", ")">>,
      <<"c", "o", "n", "s", "t", "r", "i", "n", "g", "\"", "p", "t", "r",
        "y", "F", "r", "o", "m", "(", "T", "o", "k", "e", "n", "N", "a",
        "m", "e", ")">>,
      <<"c", "o", "n", "s", "t", "r", "i", "n", "g", "\"", "p", "t", "r",
        "y", "F", "r", "o", "m", "(", "C", "u", "r", "r", "e", "n", "c",
        "y", "S", "y", "m", "b", "o", "l", ")">>,
      <<"c", "o", "n", "s", "t", "r", "i", "n", "g", "\"", "p", "t", "r",
        "y", "F", "r", "o", "m", "(", "P", "D", "a", "t", "a", "R", "e",
        "c", "o", "r", "d", "[", "]", ")">>,
      <<"c", "o", "n", "s", "t", "r", "i", "n", "g", "\"", "p", "t", "r",
        "y", "F", "r", "o", "m", "(", "P", "S", "c", "r", "i", "p", "t",
        "H", "a", "s", "h", ")">>,
      <<"c", "o", "n", "s", "t", "r", "i", "n", "g", "\"", "p", "t", "r",
        "y", "F", "r", "o", "m", "(", "P", "P", "u", "b", "K", "e", "y",
        "H", "a", "s", "h", ")">>,
      <<"c", "o", "n", "s", "t", "r", "i", "n", "g", "\"", "p", "t", "r",
        "y", "F", "r", "o", "m", "(", "P", "R", "a", "t", "i", "o", "n",
        "a", "l", ")">>,
      <<"c", "o", "n", "s", "t", "r", "i", "n", "g", "\"", "u", "n", "s",
        "o", "r", "t", "e", "d", " ", "m", "a", "p">>,
      <<"(", "f", "o", "r", "c", "e", "(", "b", "u", "i", "l", "t", "i",
        "n", "h", "e", "a", "d", "L", "i", "s", "t", ")", ")", "]", ")",
        "(", "f", "o", "r", "c", "e", "(", "b", "u", "i", "l", "t", "i",
        "n", "t", "a", "i", "l", "L", "i", "s", "t", ")", ")", "]", ")",
        "(", "l", "a", "m", "i", "_", "0", "[", "i", "_", "2", "[", "(",
        "b", "u", "i", "l", "t", "i", "n", "u", "n", "C", "o", "n", "s",
        "t", "r", "D", "a", "t", "a", ")", "i", "_", "1", "]", "]", ")",
        "]", ")", "(", "f", "o", "r", "c", "e", "(", "f", "o", "r", "c",
        "e", "(", "b", "u", "i", "l", "t", "i", "n", "s", "n", "d", "P",
        "a", "i", "r", ")", ")", ")">>,
      <<"(", "f", "o", "r", "c", "e", "(", "b", "u", "i", "l", "t", "i",
        "n", "t", "a", "i", "l", "L", "i", "s", "t", ")", ")", "]", ")",
        "(", "f", "o", "r", "c", "e", "(", "b", "u", "i", "l", "t", "i",
        "n", "h", "e", "a", "d", "L", "i", "s", "t", ")", ")", "]", ")",
        "(", "l", "a", "m", "i", "_", "0", "[", "i", "_", "2", "[", "(",
        "b", "u", "i", "l", "t", "i", "n", "u", "n", "C", "o", "n", "s",
        "t", "r", "D", "a", "t", "a", ")", "i", "_", "1", "]", "]", ")",
        "]", ")", "(", "f", "o", "r", "c", "e", "(", "f", "o", "r", "c",
        "e", "(", "b", "u", "i", "l", "t", "i", "n", "s", "n", "d", "P",
        "a", "i", "r", ")", ")", ")">>,
      <<"P", "a", "t", "t", "e", "r", "n", "m", "a", "t", "c", "h", "f",
        "a", "i", "l", "u", "r", "e", "i", "n">>,
      <<"P", "l", "u", "t", "a", "r", "c", "h">>
    >>

opshinMarkers ==
    <<
      <<"c", "o", "n", "s", "t", "r", "i", "n", "g", "\"", "K", "e", "y",
        "E", "r", "r", "o", "r", "\"">>,
      <<"c", "o", "n", "s", "t", "r", "i", "n", "g", "\"", "N", "a", "m",
        "e", "E", "r", "r", "o", "r", ":">>,
      <<"c", "o", "n", "s", "t", "r", "i", "n", "g", "\"", "V", "a", "l",
        "u", "e", "E", "r", "r", "o", "r", ":", "d", "a", "t", "u", "m",
        "i", "n", "t", "e", "g", "r", "i", "t", "y", "c", "h", "e", "c",
        "k", "f", "a", "i", "l", "e", "d", "\"">>
    >>

heliosMarkers ==
    <<
      <<"v", "a", "l", "i", "d", "a", "t", "i", "o", "n", "r", "e", "t",
        "u", "r", "n", "e", "d", "f", "a", "l", "s", "e">>,
      <<"f", "o", "r", "c", "e", "(", "b", "u", "i", "l", "t", "i", "n",
        "i", "f", "T", "h", "e", "n", "E", "l", "s", "e", ")", ")", "[",
        "[", "(", "b", "u", "i", "l", "t", "i", "n", "e", "q", "u", "a",
        "l", "s", "I", "n", "t", "e", "g", "e", "r", ")", "[", "(", "f",
        "o", "r", "c", "e", "(", "f", "o", "r", "c", "e", "(", "b", "u",
        "i", "l", "t", "i", "n", "f", "s", "t", "P", "a", "i", "r", ")",
        ")", ")", "[", "(", "b", "u", "i", "l", "t", "i", "n", "u", "n",
        "C", "o", "n", "s", "t", "r", "D", "a", "t", "a", ")">>
    >>

plutusTxMarkers ==
    <<
      <<"c", "o", "n", "s", "t", "r", "i", "n", "g", "\"", "L", "0", "\"">>,
      <<"c", "o", "n", "s", "t", "r", "i", "n", "g", "\"", "L", "1", "\"">>,
      <<"c", "o", "n", "s", "t", "r", "i", "n", "g", "\"", "L", "2", "\"">>,
      <<"c", "o", "n", "s", "t", "r", "i", "n", "g", "\"", "L", "3", "\"">>,
      <<"c", "o", "n", "s", "t", "r", "i", "n", "g", "\"", "L", "4", "\"">>,
      <<"c", "o", "n", "s", "t", "r", "i", "n", "g", "\"", "L", "5", "\"">>,
      <<"c", "o", "n", "s", "t", "r", "i", "n", "g", "\"", "L", "6", "\"">>,
      <<"c", "o", "n", "s", "t", "r", "i", "n", "g", "\"", "L", "7", "\"">>,
      <<"c", "o", "n", "s", "t", "r", "i", "n", "g", "\"", "L", "8", "\"">>,
      <<"c", "o", "n", "s", "t", "r", "i", "n", "g", "\"", "L", "9", "\"">>,
      <<"c", "o", "n", "s", "t", "r", "i", "n", "g", "\"", "L", "a", "\"">>,
      <<"c", "o", "n", "s", "t", "r", "i", "n", "g", "\"", "L", "b", "\"">>,
      <<"c", "o", "n", "s", "t", "r", "i", "n", "g", "\"", "L", "c", "\"">>,
      <<"c", "o", "n", "s", "t", "r", "i", "n", "g", "\"", "L", "d", "\"">>,
      <<"c", "o", "n", "s", "t", "r", "i", "n", "g", "\"", "L", "e", "\"">>,
      <<"c", "o", "n", "s", "t", "r", "i", "n", "g", "\"", "L", "f", "\"">>,
      <<"c", "o", "n", "s", "t", "r", "i", "n", "g", "\"", "L", "g", "\"">>,
      <<"c", "o", "n", "s", "t", "r", "i", "n", "g", "\"", "L", "h", "\"">>,
      <<"c", "o", "n", "s", "t", "r", "i", "n", "g", "\"", "L", "i", "\"">>,
      <<"c", "o", "n", "s", "t", "r", "i", "n", "g", "\"", "P", "T", "1",
        "\"">>,
      <<"c", "o", "n", "s", "t", "r", "i", "n", "g", "\"", "P", "T", "2",
        "\"">>,
      <<"c", "o", "n", "s", "t", "r", "i", "n", "g", "\"", "P", "T", "3",
        "\"">>,
      <<"c", "o", "n", "s", "t", "r", "i", "n", "g", "\"", "P", "T", "4",
        "\"">>,
      <<"c", "o", "n", "s", "t", "r", "i", "n", "g", "\"", "P", "T", "5",
        "\"">>,
      <<"c", "o", "n", "s", "t", "r", "i", "n", "g", "\"", "P", "T", "6",
        "\"">>,
      <<"c", "o", "n", "s", "t", "r", "i", "n", "g", "\"", "P", "T", "7",
        "\"">>,
      <<"c", "o", "n", "s", "t", "r", "i", "n", "g", "\"", "P", "T", "8",
        "\"">>,
      <<"c", "o", "n", "s", "t", "r", "i", "n", "g", "\"", "P", "T", "9",
        "\"">>,
      <<"c", "o", "n", "s", "t", "r", "i", "n", "g", "\"", "P", "T", "1",
        "0", "\"">>,
      <<"c", "o", "n", "s", "t", "r", "i", "n", "g", "\"", "P", "T", "1",
        "1", "\"">>,
      <<"c", "o", "n", "s", "t", "r", "i", "n", "g", "\"", "P", "T", "1",
        "2", "\"">>,
      <<"c", "o", "n", "s", "t", "r", "i", "n", "g", "\"", "P", "T", "1",
        "3", "\"">>,
      <<"c", "o", "n", "s", "t", "r", "i", "n", "g", "\"", "P", "T", "1",
        "4", "\"">>,
      <<"c", "o", "n", "s", "t", "r", "i", "n", "g", "\"", "P", "T", "1",
        "5", "\"">>,
      <<"c", "o", "n", "s", "t", "r", "i", "n", "g", "\"", "P", "T", "1",
        "6", "\"">>,
      <<"c", "o", "n", "s", "t", "r", "i", "n", "g", "\"", "P", "T", "1",
        "7", "\"">>,
      <<"c", "o", "n", "s", "t", "r", "i", "n", "g", "\"", "P", "T", "1",
        "8", "\"">>,
      <<"c", "o", "n", "s", "t", "r", "i", "n", "g", "\"", "P", "a", "\"">>,
      <<"c", "o", "n", "s", "t", "r", "i", "n", "g", "\"", "P", "b", "\"">>,
      <<"c", "o", "n", "s", "t", "r", "i", "n", "g", "\"", "P", "c", "\"">>,
      <<"c", "o", "n", "s", "t", "r", "i", "n", "g", "\"", "P", "d", "\"">>,
      <<"c", "o", "n", "s", "t", "r", "i", "n", "g", "\"", "P", "e", "\"">>,
      <<"c", "o", "n", "s", "t", "r", "i", "n", "g", "\"", "P", "f", "\"">>,
      <<"c", "o", "n", "s", "t", "r", "i", "n", "g", "\"", "P", "g", "\"">>,
      <<"c", "o", "n", "s", "t", "r", "i", "n", "g", "\"", "S", "0", "\"">>,
      <<"c", "o", "n", "s", "t", "r", "i", "n", "g", "\"", "S", "1", "\"">>,
      <<"c", "o", "n", "s", "t", "r", "i", "n", "g", "\"", "S", "2", "\"">>,
      <<"c", "o", "n", "s", "t", "r", "i", "n", "g", "\"", "S", "3", "\"">>,
      <<"c", "o", "n", "s", "t", "r", "i", "n", "g", "\"", "S", "4", "\"">>,
      <<"c", "o", "n", "s", "t", "r", "i", "n", "g", "\"", "S", "5", "\"">>,
      <<"c", "o", "n", "s", "t", "r", "i", "n", "g", "\"", "S", "6", "\"">>,
      <<"c", "o", "n", "s", "t", "r", "i", "n", "g", "\"", "S", "7", "\"">>,
      <<"c", "o", "n", "s", "t", "r", "i", "n", "g", "\"", "S", "8", "\"">>,
      <<"c", "o", "n", "s", "t", "r", "i", "n", "g", "\"", "C", "0", "\"">>,
      <<"c", "o", "n", "s", "t", "r", "i", "n", "g", "\"", "C", "1", "\"">>,
      <<"4", "1", "7", "8", "6", "f", "4", "f", "7", "2", "6", "1", "6",
        "3", "6", "c", "6", "5", "5", "6", "3", "1">>,
      <<"4", "1", "7", "5", "6", "3", "7", "4", "6", "9", "6", "f", "6",
        "e", "4", "5", "7", "3", "6", "3", "7", "2", "6", "f", "7">>
    >>

\* input.replace(/\s+/g, "")
normalizeProgram(in) == removeWhitespace(in)

\* String.prototype.includes
includes(text, part) ==
    \/ part = <<>>
    \/ \E i \in 1..(Len(text) - Len(part) + 1) :
          /\ text[i] = part[1]
          /\ SubSeq(text, i, i + Len(part) - 1) = part

\* The markers of a table that the loop counts, in table order: the
\* normalized marker is not empty and the program includes it.
matchedMarkers(normalizedProgram, markers) ==
    SelectSeq([i \in 1..Len(markers) |-> removeWhitespace(markers[i])],
              LAMBDA normalizedMarker :
                  /\ normalizedMarker # <<>>
                  /\ includes(normalizedProgram, normalizedMarker))

\* Mutant: every matched marker pushed to the sample, the limit ignored.
collectMarkerEvidence_uncapped(normalizedProgram, markers) ==
    LET matched == matchedMarkers(normalizedProgram, markers)
        totalMatches == Len(matched)
    IN IF totalMatches = 0 THEN NULL
       ELSE [kind |-> "marker", markers |-> matched, totalMatches |-> totalMatches]

collectMarkerEvidence(normalizedProgram, markers) ==
    LET matched == matchedMarkers(normalizedProgram, markers)
        totalMatches == Len(matched)
        samples == IF totalMatches < MARKER_SAMPLE_LIMIT THEN matched
                   ELSE SubSeq(matched, 1, MARKER_SAMPLE_LIMIT)
    IN IF totalMatches = 0 THEN NULL
       ELSE [kind |-> "marker", markers |-> samples, totalMatches |-> totalMatches]

RECURSIVE isPlutsTerm_anyBranchCount(_)
\* Mutant: the number of branches not checked.
isPlutsTerm_anyBranchCount(term) ==
    IF term.tag = "Case"
    THEN /\ term.constrTerm.tag = "Constr"
         /\ term.constrTerm.index = 0
         /\ Len(term.constrTerm.terms) = 0
         /\ Len(term.continuations) > 0
         /\ LET lastBranch == term.continuations[Len(term.continuations)]
            IN /\ lastBranch.tag = "UPLCConst"
               /\ lastBranch.type = "integer"
               /\ lastBranch.value = 42
    ELSE IF term.tag = "Lambda" THEN isPlutsTerm_anyBranchCount(term.body)
    ELSE FALSE

RECURSIVE isPlutsTerm(_)
isPlutsTerm(term) ==
    IF term.tag = "Case"
    THEN /\ term.constrTerm.tag = "Constr"
         /\ term.constrTerm.index = 0
         /\ Len(term.constrTerm.terms) = 0
         /\ Len(term.continuations) = 2
         /\ LET lastBranch == term.continuations[Len(term.continuations)]
            IN /\ lastBranch.tag = "UPLCConst"
               /\ lastBranch.type = "integer"
               /\ lastBranch.value = 42
    ELSE IF term.tag = "Lambda" THEN isPlutsTerm(term.body)
    ELSE FALSE

StructuralDetail ==
    <<"Matches the Plu-ts two-branch case structure with the sentinel integer 42.">>

\* A LanguagePrediction.
Prediction(language, evidence) == [language |-> language, evidence |-> evidence]

StructuralEvidence == [kind |-> "structure", detail |-> StructuralDetail]

\* The four marker steps that follow the structural step.
laterSteps(normalized) ==
    LET heliosEvidence == collectMarkerEvidence(normalized, heliosMarkers) IN
    IF heliosEvidence # NULL THEN Prediction("helios", heliosEvidence)
    ELSE LET plutusTxEvidence == collectMarkerEvidence(normalized, plutusTxMarkers) IN
    IF plutusTxEvidence # NULL THEN Prediction("plutus-tx", plutusTxEvidence)
    ELSE LET opshinEvidence == collectMarkerEvidence(normalized, opshinMarkers) IN
    IF opshinEvidence # NULL THEN Prediction("opshin", opshinEvidence)
    ELSE LET plutarchEvidence == collectMarkerEvidence(normalized, plutarchMarkers) IN
    IF plutarchEvidence # NULL THEN Prediction("plutarch", plutarchEvidence)
    ELSE NULL

\* Mutant: the structural step placed ahead of the first marker table.
predictLanguage_structureFirst(term, programText) ==
    LET normalized == normalizeProgram(programText) IN
    IF normalized = <<>> THEN NULL
    ELSE IF isPlutsTerm(term) THEN Prediction("plu-ts", StructuralEvidence)
    ELSE LET aikenEvidence == collectMarkerEvidence(normalized, aikenMarkers) IN
    IF aikenEvidence # NULL THEN Prediction("aiken", aikenEvidence)
    ELSE laterSteps(normalized)

\* Mutant: the structural step left out of the chain.
predictLanguage_noStructure(term, programText) ==
    LET normalized == normalizeProgram(programText) IN
    IF normalized = <<>> THEN NULL
    ELSE LET aikenEvidence == collectMarkerEvidence(normalized, aikenMarkers) IN
    IF aikenEvidence # NULL THEN Prediction("aiken", aikenEvidence)
    ELSE laterSteps(normalized)

\* Mutant: the chain ended after the structural step.
predictLanguage_twoSteps(term, programText) ==
    LET normalized == normalizeProgram(programText) IN
    IF normalized = <<>> THEN NULL
    ELSE LET aikenEvidence == collectMarkerEvidence(normalized, aikenMarkers) IN
    IF aikenEvidence # NULL THEN Prediction("aiken", aikenEvidence)
    ELSE IF isPlutsTerm(term) THEN Prediction("plu-ts", StructuralEvidence)
    ELSE NULL

predictLanguage(term, programText) ==
    LET normalized == normalizeProgram(programText) IN
    IF normalized = <<>> THEN NULL
    ELSE LET aikenEvidence == collectMarkerEvidence(normalized, aikenMarkers) IN
    IF aikenEvidence # NULL THEN Prediction("aiken", aikenEvidence)
    ELSE IF isPlutsTerm(term) THEN Prediction("plu-ts", StructuralEvidence)
    ELSE laterSteps(normalized)

-----------------------------------------------------------------------------
(* Inputs of the detection functions                                       *)

MaxBranches == 3
MaxLambdas == 2
MaxPieces == 2

\* The branches a case expression is built from.
Branches == {ConstInt(42), ConstInt(41), ConstString(<<"4", "2">>), ErrorTerm}

BranchLists ==
    UNION {[1..n -> Branches] : n \in 0..MaxBranches}

Scrutinees ==
    {Constr(0, <<>>), Constr(1, <<>>), Constr(0, <<ErrorTerm>>),
     Lambda(Constr(0, <<>>)), UPLCVar(0), ErrorTerm}

Cases == {Case(s, b) : s \in Scrutinees, b \in BranchLists}

Cores ==
    Cases \cup {ErrorTerm, ConstInt(42), Builtin("addInteger"), UPLCVar(0),
                Constr(0, <<>>)}

RECURSIVE Lambdas(_, _)
\* body under n function abstractions
Lambdas(n, body) == IF n = 0 THEN body ELSE Lambda(Lambdas(n - 1, body))

UnderLambdas == {Lambdas(n, t) : n \in 0..MaxLambdas, t \in Cores}

\* Every other node above, or between the abstractions and, the core.
DetectTerms ==
    UnderLambdas
    \cup {Delay(t) : t \in Cores}
    \cup {Force(t) : t \in Cores}
    \cup {Application(t, ErrorTerm) : t \in Cores}
    \cup {Constr(0, <<t>>) : t \in Cores}
    \cup {Case(ErrorTerm, <<ErrorTerm, t>>) : t \in Cores}
    \cup {Lambda(Delay(Lambda(t))) : t \in Cores}

PlutsCase == Case(Constr(0, <<>>), <<ErrorTerm, ConstInt(42)>>)

\* The terms predictLanguage is called on.
PredictTerms ==
    {PlutsCase,
     Lambdas(2, Case(Constr(0, <<>>), <<ConstString(<<"L", "0">>), ConstInt(42)>>)),
     Case(Constr(0, <<>>), <<ErrorTerm, ConstInt(41)>>),
     Delay(PlutsCase),
     ErrorTerm}

RECURSIVE Join(_)
Join(pieces) == IF pieces = <<>> THEN <<>> ELSE Head(pieces) \o Join(Tail(pieces))

\* The pieces program texts are built from: markers of every table, a
\* marker with white space inside it, enough markers of one table to pass
\* the sample limit, a marker of another table that needs normalizing,
\* text that is no marker, and white space.
Pieces ==
    {aikenMarkers[3],
     heliosMarkers[1],
     <<"v", "a", "l", "i", "d", "a", "t", "i", "o", "n", " ", "r", "e", "t",
       "u", "r", "n", "e", "d", "\n", "f", "a", "l", "s", "e">>,
     Join(SubSeq(plutusTxMarkers, 1, MARKER_SAMPLE_LIMIT + 2)),
     opshinMarkers[1],
     plutarchMarkers[16],
     <<"(", "e", "r", "r", "o", "r", ")">>,
     <<" ", "\n">>}

DetectTexts == {Join(p) : p \in UNION {[1..n -> Pieces] : n \in 0..MaxPieces}}

MarkerTable(language) ==
    CASE language = "aiken" -> aikenMarkers
      [] language = "helios" -> heliosMarkers
      [] language = "plutus-tx" -> plutusTxMarkers
      [] language = "opshin" -> opshinMarkers
      [] language = "plutarch" -> plutarchMarkers

\* The tables in the order predictLanguage consults them.
MarkerLanguages == <<"aiken", "helios", "plutus-tx", "opshin", "plutarch">>

InitDetect ==
    /\ InitApp
    /\ call \in {Pending("predictLanguage", [term |-> t, programText |-> x]) :
                     t \in PredictTerms, x \in DetectTexts}
           \cup {Pending("collectMarkerEvidence",
                         [normalizedProgram |-> normalizeProgram(x),
                          language |-> MarkerLanguages[i]]) :
                     x \in DetectTexts, i \in 1..Len(MarkerLanguages)}
           \cup {Pending("isPlutsTerm", [term |-> t]) : t \in DetectTerms}

PredictLanguage ==
    Finish("predictLanguage", predictLanguage(call.arg.term, call.arg.programText))

CollectMarkerEvidence ==
    Finish("collectMarkerEvidence",
           collectMarkerEvidence(call.arg.normalizedProgram,
                                 MarkerTable(call.arg.language)))

IsPlutsTerm == Finish("isPlutsTerm", isPlutsTerm(call.arg.term))

NextDetect == PredictLanguage \/ CollectMarkerEvidence \/ IsPlutsTerm

SpecDetect == InitDetect /\ [][NextDetect]_vars

-----------------------------------------------------------------------------
(* Claims about language detection                                         *)

IsPredictCall == Finished("predictLanguage")

IsCollectCall == Finished("collectMarkerEvidence")

IsPlutsCall == Finished("isPlutsTerm")

\* part is a contiguous substring of text.
Occurs(part, text) ==
    \E i \in 0..(Len(text) - Len(part)) :
        \A k \in 1..Len(part) : text[i + k] = part[k]

\* The positions of the markers of a table that occur in text, both taken
\* without white space.
MatchingMarkers(language, text) ==
    LET table == MarkerTable(language) IN
    {j \in 1..Len(table) : Occurs(NoWhitespace(table[j]), NoWhitespace(text))}

TableMatches(language, text) == MatchingMarkers(language, text) # {}

RECURSIVE UnderAbstractions(_)
\* The term below the outer chain of function abstractions.
UnderAbstractions(term) ==
    IF term.tag = "Lambda" THEN UnderAbstractions(term.body) ELSE term

\* Zero or more abstractions over a two-branch case on a constructor with
\* index 0 and no fields whose last branch is the integer constant 42.
HasPlutsShape(term) ==
    LET c == UnderAbstractions(term) IN
    /\ c.tag = "Case"
    /\ c.constrTerm.tag = "Constr"
    /\ c.constrTerm.index = 0
    /\ c.constrTerm.terms = <<>>
    /\ Len(c.continuations) = 2
    /\ c.continuations[2].tag = "UPLCConst"
    /\ c.continuations[2].type = "integer"
    /\ c.continuations[2].value = 42

\* The classifiers in the order of the chain.
ChainOrder == <<"aiken", "plu-ts", "helios", "plutus-tx", "opshin", "plutarch">>

ChainPosition(language) == CHOOSE i \in 1..Len(ChainOrder) : ChainOrder[i] = language

ClassifierMatches(language, term, text) ==
    IF language = "plu-ts" THEN HasPlutsShape(term) ELSE TableMatches(language, text)

MatchingSteps(term, text) ==
    {i \in 1..Len(ChainOrder) : ClassifierMatches(ChainOrder[i], term, text)}

FirstMatchingStep(term, text) ==
    CHOOSE i \in MatchingSteps(term, text) : \A j \in MatchingSteps(term, text) : i <= j

\* The pairs of tables, the earlier first, that both have a marker in text.
MatchingTablePairs(text) ==
    {p \in (1..Len(MarkerLanguages)) \X (1..Len(MarkerLanguages)) :
        /\ p[1] < p[2]
        /\ TableMatches(MarkerLanguages[p[1]], text)
        /\ TableMatches(MarkerLanguages[p[2]], text)}

\* C13 as stated: for every term, when the text has a marker from each of
\* two tables predictLanguage reports the language of the two that is
\* earlier in the chain; and a reported language is always that of the
\* first classifier in chain order that matches.
C13_EarlierTableWins ==
    IsPredictCall =>
        /\ \A p \in MatchingTablePairs(call.arg.programText) :
               /\ call.ret # NULL
               /\ call.ret.language = MarkerLanguages[p[1]]
        /\ call.ret # NULL =>
               /\ MatchingSteps(call.arg.term, call.arg.programText) # {}
               /\ call.ret.language
                      = ChainOrder[FirstMatchingStep(call.arg.term, call.arg.programText)]

\* C13 amended: when the text has a marker from each of two tables
\* predictLanguage reports the language of the first classifier in chain
\* order that matches, however many markers of each table match: that is
\* the earlier of the two tables unless a classifier before it matches
\* (the structural matcher precedes every table but the first, and a
\* third table may precede both); a reported language is always that of
\* the first classifier in chain order that matches.
C13_FirstMatchWins ==
    IsPredictCall =>
        LET term == call.arg.term
            text == call.arg.programText
        IN /\ \A p \in MatchingTablePairs(text) :
                  /\ call.ret # NULL
                  /\ call.ret.language = ChainOrder[FirstMatchingStep(term, text)]
                  /\ (\A i \in MatchingSteps(term, text) :
                          i >= ChainPosition(MarkerLanguages[p[1]]))
                         => call.ret.language = MarkerLanguages[p[1]]
           /\ call.ret # NULL =>
                  /\ MatchingSteps(term, text) # {}
                  /\ call.ret.language = ChainOrder[FirstMatchingStep(term, text)]

\* The earlier table wins with one marker against seven of the later one.
C13_Witness ==
    /\ IsPredictCall
    /\ Cardinality(MatchingMarkers("aiken", call.arg.programText)) = 1
    /\ Cardinality(MatchingMarkers("plutus-tx", call.arg.programText)) > MARKER_SAMPLE_LIMIT
    /\ HasPlutsShape(call.arg.term)
    /\ call.ret # NULL
    /\ call.ret.language = "aiken"
    /\ call.ret.evidence.totalMatches = 1

\* No table has a marker in text.
NoMarkers(text) == \A i \in 1..Len(MarkerLanguages) : ~TableMatches(MarkerLanguages[i], text)

IsStructuralPrediction(ret) ==
    /\ ret # NULL
    /\ ret.language = "plu-ts"
    /\ ret.evidence.kind = "structure"

\* C14 as stated: for a term of the plu-ts shape and any text with no
\* marker of any table, whatever the text is, predictLanguage returns
\* plu-ts with structural evidence.
C14_StructureAlone ==
    (IsPredictCall /\ HasPlutsShape(call.arg.term) /\ NoMarkers(call.arg.programText))
        => IsStructuralPrediction(call.ret)

\* C14 amended: for a term of the plu-ts shape and any text with no marker
\* of any table that has at least one character that is not white space,
\* predictLanguage returns plu-ts with structural evidence; for a text
\* that is empty or all white space it returns no prediction, whatever
\* the term.
C14_StructureAloneOnNonBlankText ==
    IsPredictCall =>
        /\ (/\ HasPlutsShape(call.arg.term)
            /\ NoMarkers(call.arg.programText)
            /\ NoWhitespace(call.arg.programText) # <<>>)
               => /\ IsStructuralPrediction(call.ret)
                  /\ call.ret.evidence.detail = StructuralDetail
        /\ NoWhitespace(call.arg.programText) = <<>> => call.ret = NULL

C14_Witness ==
    /\ IsPredictCall
    /\ HasPlutsShape(call.arg.term)
    /\ call.arg.term.tag = "Lambda"
    /\ NoMarkers(call.arg.programText)
    /\ call.arg.programText = <<"(", "e", "r", "r", "o", "r", ")">>
    /\ IsStructuralPrediction(call.ret)

\* C15: isPlutsTerm returns true exactly for zero or more function
\* abstractions over a case expression whose scrutinee is a constructor
\* with index 0 and no fields, that has exactly two branches, and whose
\* last branch is an integer constant of value 42; every other term gives
\* false, and the call returns on every term.
C15_PlutsShapeExactly ==
    IsPlutsCall => (call.ret = HasPlutsShape(call.arg.term))

C15_Witness ==
    /\ IsPlutsCall
    /\ call.arg.term = Lambdas(MaxLambdas, PlutsCase)
    /\ call.ret = TRUE

\* The k-th smallest element of a set of positions.
NthOf(positions, k) ==
    CHOOSE j \in positions : Cardinality({i \in positions : i < j}) = k - 1

Smaller(a, b) == IF a < b THEN a ELSE b

\* C16: a marker matches exactly when it occurs, without its white space,
\* in the text without its white space; collectMarkerEvidence returns
\* evidence exactly when some marker of the table matches, totalMatches
\* is the number of matching markers, and the sample is the first
\* min(totalMatches, 5) matching markers in table order; the prediction
\* for a text is the prediction for the text without its white space.
C16_MarkerEvidence ==
    /\ IsCollectCall =>
           LET table == MarkerTable(call.arg.language)
               matching == MatchingMarkers(call.arg.language, call.arg.normalizedProgram)
               total == Cardinality(matching)
           IN /\ (call.ret = NULL) = (matching = {})
              /\ call.ret # NULL =>
                     /\ call.ret.kind = "marker"
                     /\ call.ret.totalMatches = total
                     /\ Len(call.ret.markers) = Smaller(total, 5)
                     /\ Len(call.ret.markers) >= 1
                     /\ Len(call.ret.markers) <= call.ret.totalMatches
                     /\ \A k \in 1..Len(call.ret.markers) :
                            call.ret.markers[k] = NoWhitespace(table[NthOf(matching, k)])
    /\ IsPredictCall =>
           /\ call.ret = predictLanguage(call.arg.term, NoWhitespace(call.arg.programText))
           /\ (call.ret # NULL /\ call.ret.evidence.kind = "marker") =>
                  /\ call.ret.evidence.totalMatches
                         = Cardinality(MatchingMarkers(call.ret.language, call.arg.programText))
                  /\ Len(call.ret.evidence.markers)
                         = Smaller(call.ret.evidence.totalMatches, 5)

\* More matching markers than the sample holds.
C16_Witness ==
    /\ IsCollectCall
    /\ call.arg.language = "plutus-tx"
    /\ call.ret # NULL
    /\ call.ret.totalMatches = MARKER_SAMPLE_LIMIT + 2
    /\ Len(call.ret.markers) = MARKER_SAMPLE_LIMIT
    /\ call.ret.markers[MARKER_SAMPLE_LIMIT] = plutusTxMarkers[MARKER_SAMPLE_LIMIT]

\* The five classifiers the claim counts: the first table, the structural
\* matcher and the three tables that follow.
FiveSteps == {"aiken", "plu-ts", "helios", "plutus-tx", "opshin"}

=============================================================================
